---- MODULE Spec2Model ----
(***************************************************************************)
(* A model of graph.py: the classes Tree and Graph.                        *)
(*                                                                         *)
(* A Graph object is its attribute self.G, a defaultdict(set).  The dict   *)
(* is modelled by the sequence of its keys (a dict iterates its keys in    *)
(* insertion order) and by a function from each key to the sequence in     *)
(* which the set stored under it iterates.  The iteration order of a set   *)
(* is not fixed by the language, so a new member may land at any position. *)
(* Looking a missing key up in a defaultdict inserts it, and a dict whose  *)
(* size changed while it is iterated raises RuntimeError at the next step  *)
(* of the iteration: both are part of the model.                           *)
(***************************************************************************)
EXTENDS Integers, Sequences, FiniteSets, TLC

NumVertices == 3
MaxEdges == 3

Vertex == 1..NumVertices

VARIABLES G, built, ret, gen

vars == <<G, built, ret, gen>>

Range(s) == {s[i] : i \in 1..Len(s)}

(***************************************************************************)
(* class Tree                                                              *)
(***************************************************************************)
Tree(root, branches) == [root |-> root, branches |-> branches]

RECURSIVE postorder(_), postorderSeq(_)
postorderSeq(bs) ==
    IF bs = <<>> THEN <<>> ELSE postorder(Head(bs)) \o postorderSeq(Tail(bs))

postorder(t) == postorderSeq(t.branches) \o <<t.root>>

reversed(s) == [i \in 1..Len(s) |-> s[Len(s) + 1 - i]]

(***************************************************************************)
(* class Graph: the dict self.G                                            *)
(***************************************************************************)
EmptyDict == [keys |-> <<>>, adj |-> <<>>]

\* self.G[v] on a defaultdict(set): a missing key is inserted with set()
getitem(g, v) ==
    IF v \in Range(g.keys) THEN g
    ELSE [keys |-> Append(g.keys, v), adj |-> (v :> <<>>) @@ g.adj]

\* the orders in which a set may iterate after v was added to it
setAdd(s, v) ==
    IF v \in Range(s) THEN {s}
    ELSE {SubSeq(s, 1, i) \o <<v>> \o SubSeq(s, i + 1, Len(s)) : i \in 0..Len(s)}

\* self.G[u].add(v), one iteration of the loop of __init__
addEdge(g, u, v) ==
    LET g1 == getitem(g, u)
    IN  {[g1 EXCEPT !.adj[u] = s] : s \in setAdd(g1.adj[u], v)}

\* Graph(edges): the dicts __init__ may leave behind
RECURSIVE GraphInit(_, _)
GraphInit(g, es) ==
    IF es = <<>> THEN {g}
    ELSE UNION {GraphInit(g1, Tail(es)) : g1 \in addEdge(g, Head(es)[1], Head(es)[2])}

vertices(g) == g.keys

\* the value of self.G[v]; the insertion it causes is getitem(g, v)
neighbors(g, v) == getitem(g, v).adj[v]

outdegree(g, v) == Len(neighbors(g, v))

RECURSIVE edgesFrom(_, _)
edgesFrom(g, i) ==
    IF i > Len(g.keys) THEN <<>>
    ELSE [j \in 1..Len(g.adj[g.keys[i]]) |-> <<g.keys[i], g.adj[g.keys[i]][j]>>]
         \o edgesFrom(g, i + 1)

edges(g) == edgesFrom(g, 1)

transpose(g) ==
    LET es == edges(g)
    IN  GraphInit(EmptyDict, [i \in 1..Len(es) |-> <<es[i][2], es[i][1]>>])

union(g, other) == GraphInit(EmptyDict, edges(g) \o edges(other))

undirected(g) == UNION {union(g, gt) : gt \in transpose(g)}

indegree(g, v) == {outdegree(gt, v) : gt \in transpose(g)}

(***************************************************************************)
(* Depth-first exploration.  Both operators return the dict as the walk    *)
(* left it, the visited set as the walk left it, and what they built.      *)
(* Tree.__init__ does list(branches), so a tree is complete when           *)
(* spanning_tree returns.                                                  *)
(***************************************************************************)
RECURSIVE spanning_tree(_, _, _), spanning_forest(_, _, _)
spanning_tree(g, v, visited) ==
    LET f == spanning_forest(getitem(g, v), neighbors(g, v), visited \cup {v})
    IN  [G |-> f.G, visited |-> f.visited, tree |-> Tree(v, f.trees)]

\* spanning_forest(vertices, visited) run to its end over an iterable that
\* is not the dict itself (a neighbour set, or the output of linearize)
spanning_forest(g, vs, visited) ==
    IF vs = <<>> THEN [G |-> g, visited |-> visited, trees |-> <<>>]
    ELSE IF Head(vs) \in visited THEN spanning_forest(g, Tail(vs), visited)
    ELSE LET t == spanning_tree(g, Head(vs), visited)
             r == spanning_forest(t.G, Tail(vs), t.visited)
         IN  [G |-> r.G, visited |-> r.visited, trees |-> <<t.tree>> \o r.trees]

(***************************************************************************)
(* spanning_forest() with the default vertices = self.G.keys(): a          *)
(* generator over a view of the dict.  st.n0 is the size of the dict when  *)
(* the iteration began, st.i the index of the next key.  The key iterator  *)
(* compares the size of the dict first, then looks for the next key.       *)
(***************************************************************************)
NewGen == [status |-> "created", n0 |-> 0, i |-> 1, visited |-> {}, trees |-> <<>>]

NoGen == [status |-> "none", n0 |-> 0, i |-> 1, visited |-> {}, trees |-> <<>>]

RECURSIVE forestResume(_, _)
forestResume(g, st) ==
    IF Len(g.keys) # st.n0 THEN [G |-> g, st |-> [st EXCEPT !.status = "RuntimeError"]]
    ELSE IF st.i > st.n0 THEN [G |-> g, st |-> [st EXCEPT !.status = "stop"]]
    ELSE IF g.keys[st.i] \in st.visited THEN forestResume(g, [st EXCEPT !.i = @ + 1])
    ELSE LET t == spanning_tree(g, g.keys[st.i], st.visited)
         IN  [G |-> t.G,
              st |-> [st EXCEPT !.status = "yield", !.i = @ + 1,
                                !.visited = t.visited,
                                !.trees = Append(@, t.tree)]]

\* one next() on the generator
forestNext(g, st) ==
    IF st.status = "created" THEN forestResume(g, [st EXCEPT !.n0 = Len(g.keys)])
    ELSE forestResume(g, st)

\* the generator consumed until it stops or raises
RECURSIVE forestAll(_, _)
forestAll(g, st) ==
    LET r == forestNext(g, st)
    IN  IF r.st.status = "yield" THEN forestAll(r.G, r.st) ELSE r

RECURSIVE concatReversed(_)
concatReversed(ts) ==
    IF ts = <<>> THEN <<>>
    ELSE reversed(postorder(Head(ts))) \o concatReversed(Tail(ts))

postorders(ts) == [i \in 1..Len(ts) |-> postorder(ts[i])]

\* list(t.postorder()) for t in self.spanning_forest()
ccs(g) ==
    LET r == forestAll(g, NewGen)
    IN  IF r.st.status = "RuntimeError"
        THEN [G |-> r.G, status |-> "RuntimeError", val |-> <<>>]
        ELSE [G |-> r.G, status |-> "ok", val |-> postorders(r.st.trees)]

\* linearize() consumed to its end: val is what it yielded, also when the
\* iteration of the dict raised after some trees
linearize(g) ==
    LET r == forestAll(g, NewGen)
    IN  [G |-> r.G,
         status |-> IF r.st.status = "RuntimeError" THEN "RuntimeError" ELSE "ok",
         val |-> concatReversed(r.st.trees)]

\* post = {v: i for i, v in enumerate(...)}: the last index wins
enumerate(s, v) == CHOOSE i \in 1..Len(s) : s[i] = v /\ \A j \in (i + 1)..Len(s) : s[j] # v

acyclic(g) ==
    LET lin == linearize(g)
    IN  IF lin.status = "RuntimeError"
        THEN [G |-> lin.G, status |-> "RuntimeError", val |-> FALSE]
        ELSE [G |-> lin.G, status |-> "ok",
              val |-> \A e \in Range(edges(lin.G)) :
                         enumerate(lin.val, e[1]) < enumerate(lin.val, e[2])]

\* reachable with the tree grown from v and searched for u
reachableFromTarget(g, u, v) ==
    LET t == spanning_tree(g, v, {})
    IN  [G |-> t.G, status |-> "ok",
         val |-> \E w \in Range(postorder(t.tree)) : w = u]

reachable(g, u, v) ==
    LET t == spanning_tree(g, u, {})
    IN  [G |-> t.G, status |-> "ok",
         val |-> \E w \in Range(postorder(t.tree)) : w = v]

\* self.transpose().spanning_forest(self.linearize()): the transpose is
\* built first, then its forest draws its roots from linearize()
sccs(g) ==
    LET lin == linearize(g)
    IN  IF lin.status = "RuntimeError"
        THEN {[G |-> lin.G, status |-> "RuntimeError", val |-> <<>>]}
        ELSE {[G |-> lin.G, status |-> "ok",
               val |-> postorders(spanning_forest(gt, lin.val, {}).trees)]
              : gt \in transpose(g)}

\* contract[v] = S for v in S, for scc in sccs: the last scc holding v wins
contractOf(comps) ==
    [v \in UNION {Range(comps[i]) : i \in 1..Len(comps)} |->
        Range(comps[CHOOSE i \in 1..Len(comps) :
                        v \in Range(comps[i])
                        /\ \A j \in (i + 1)..Len(comps) : v \notin Range(comps[j])])]

\* contractEdges without the test contract[u] != contract[v]: the edges
\* inside a component are kept
contractEdgesUnfiltered(es, contract) ==
    [i \in 1..Len(es) |-> <<contract[es[i][1]], contract[es[i][2]]>>]

\* (contract[u], contract[v]) for u, v in self.edges() if contract[u] != contract[v]
contractEdges(es, contract) ==
    LET keep(e) == contract[e[1]] # contract[e[2]]
        kept == SelectSeq(es, keep)
    IN  [i \in 1..Len(kept) |-> <<contract[kept[i][1]], contract[kept[i][2]]>>]

condensation(g) ==
    UNION {IF s.status = "RuntimeError"
           THEN {[G |-> s.G, status |-> "RuntimeError", val |-> <<>>]}
           ELSE {[G |-> s.G, status |-> "ok", val |-> c] :
                    c \in GraphInit(EmptyDict, contractEdges(edges(s.G), contractOf(s.val)))}
           : s \in sccs(g)}

(***************************************************************************)
(* shortest_path(s, t) with the default weight.  dist and prev are dicts,  *)
(* Q a set.  min(Q, key=dist.get) returns the first of the members of      *)
(* least dist in the iteration order of Q, which is any of them.           *)
(***************************************************************************)
None == 0

weight(e) == 1

has(d, k) == k \in DOMAIN d

put(d, k, x) == (k :> x) @@ d

\* relax without Q.add(v): an improved neighbour is never explored
RECURSIVE relaxNoEnqueue(_, _, _)
relaxNoEnqueue(u, vs, st) ==
    IF vs = <<>> THEN st
    ELSE LET v == Head(vs)
             alt == st.dist[u] + weight(<<u, v>>)
         IN  IF ~has(st.dist, v) \/ alt < st.dist[v]
             THEN relaxNoEnqueue(u, Tail(vs), [dist |-> put(st.dist, v, alt),
                                               prev |-> put(st.prev, v, u),
                                               Q |-> st.Q])
             ELSE relaxNoEnqueue(u, Tail(vs), st)

\* for v in self.neighbors(u): ... over the neighbours still to come
RECURSIVE relax(_, _, _)
relax(u, vs, st) ==
    IF vs = <<>> THEN st
    ELSE LET v == Head(vs)
             alt == st.dist[u] + weight(<<u, v>>)
         IN  IF ~has(st.dist, v) \/ alt < st.dist[v]
             THEN relax(u, Tail(vs), [dist |-> put(st.dist, v, alt),
                                      prev |-> put(st.prev, v, u),
                                      Q |-> st.Q \cup {v}])
             ELSE relax(u, Tail(vs), st)

minQ(st) == {u \in st.Q : \A w \in st.Q : st.dist[u] <= st.dist[w]}

\* the while loop: the set of (dict, prev) it may end with
RECURSIVE dijkstra(_, _, _)
dijkstra(g, t, st) ==
    IF st.Q = {} THEN {[G |-> g, prev |-> st.prev]}
    ELSE UNION {IF u = t THEN {[G |-> g, prev |-> st.prev]}
                ELSE dijkstra(getitem(g, u), t,
                              relax(u, neighbors(g, u), [st EXCEPT !.Q = @ \ {u}]))
                : u \in minQ(st)}

RECURSIVE pathBack(_, _)
pathBack(prev, t) == IF t = None THEN <<>> ELSE <<t>> \o pathBack(prev, prev[t])

shortest_path(g, s, t) ==
    {IF ~has(r.prev, t)
     THEN [G |-> r.G, status |-> "None", val |-> <<>>]
     ELSE [G |-> r.G, status |-> "ok", val |-> reversed(pathBack(r.prev, t))]
     : r \in dijkstra(g, t, [dist |-> (s :> 0), prev |-> (s :> None), Q |-> {s}])}

(***************************************************************************)
(* The program: a Graph is constructed from an edge list, then queried.    *)
(* ret is the last call and what it returned, until the caller drops it;   *)
(* gen is a generator obtained from spanning_forest() and held by the      *)
(* caller.  NumVertices and MaxEdges bound the graphs that are built.      *)
(***************************************************************************)
\* the caller holds no value
NoCall == [op |-> "none"]

\* what the caller holds after a call: the value under the name of the
\* call if it returned one, no value if it returned None or raised
Call(op, args, status, val) ==
    IF status = "ok"
    THEN (op :> val) @@ [op |-> op, args |-> args, status |-> status]
    ELSE [op |-> op, args |-> args, status |-> status]

Init ==
    /\ G = EmptyDict
    /\ built = FALSE
    /\ ret = NoCall
    /\ gen = NoGen

\* for u, v in edges: self.G[u].add(v)
AddEdge(u, v) ==
    /\ ~built
    /\ Len(edges(G)) < MaxEdges
    /\ G' \in addEdge(G, u, v)
    /\ UNCHANGED <<built, ret, gen>>

\* __init__ returns
Constructed ==
    /\ ~built
    /\ built' = TRUE
    /\ UNCHANGED <<G, ret, gen>>

\* the graph is constructed and the caller holds no unconsumed value
Ready == built /\ ret.op = "none"

\* a call whose outcome r carries the dict it left, a status and a value
Returns(op, args, r) ==
    /\ G' = r.G
    /\ ret' = Call(op, args, r.status, r.val)
    /\ UNCHANGED <<built, gen>>

CallVertices ==
    /\ Ready
    /\ Returns("vertices", <<>>, [G |-> G, status |-> "ok", val |-> vertices(G)])

CallNeighbors(v) ==
    /\ Ready
    /\ Returns("neighbors", <<v>>,
               [G |-> getitem(G, v), status |-> "ok", val |-> neighbors(G, v)])

CallOutdegree(v) ==
    /\ Ready
    /\ Returns("outdegree", <<v>>,
               [G |-> getitem(G, v), status |-> "ok", val |-> outdegree(G, v)])

CallIndegree(v) ==
    /\ Ready
    /\ \E n \in indegree(G, v) :
          Returns("indegree", <<v>>, [G |-> G, status |-> "ok", val |-> n])

CallEdges ==
    /\ Ready
    /\ Returns("edges", <<>>, [G |-> G, status |-> "ok", val |-> edges(G)])

CallTranspose ==
    /\ Ready
    /\ \E gt \in transpose(G) :
          Returns("transpose", <<>>, [G |-> G, status |-> "ok", val |-> gt])

CallUndirected ==
    /\ Ready
    /\ \E gu \in undirected(G) :
          Returns("undirected", <<>>, [G |-> G, status |-> "ok", val |-> gu])

CallSpanningTree(v) ==
    /\ Ready
    /\ LET t == spanning_tree(G, v, {})
       IN  Returns("spanning_tree", <<v>>, [G |-> t.G, status |-> "ok", val |-> t.tree])

CallCcs ==
    /\ Ready
    /\ Returns("ccs", <<>>, ccs(G))

CallLinearize ==
    /\ Ready
    /\ Returns("linearize", <<>>, linearize(G))

CallReachable(u, v) ==
    /\ Ready
    /\ Returns("reachable", <<u, v>>, reachable(G, u, v))

CallAcyclic ==
    /\ Ready
    /\ Returns("acyclic", <<>>, acyclic(G))

CallSccs ==
    /\ Ready
    /\ \E r \in sccs(G) : Returns("sccs", <<>>, r)

CallCondensation ==
    /\ Ready
    /\ \E r \in condensation(G) : Returns("condensation", <<>>, r)

CallShortestPath(s, t) ==
    /\ Ready
    /\ \E r \in shortest_path(G, s, t) : Returns("shortest_path", <<s, t>>, r)

\* the caller drops the value the last call returned
Discard ==
    /\ ret.op # "none"
    /\ ret' = NoCall
    /\ UNCHANGED <<G, built, gen>>

\* it = g.spanning_forest(): the body of a generator runs from the first next()
ForestStart ==
    /\ built
    /\ gen.status = "none"
    /\ gen' = NewGen
    /\ UNCHANGED <<G, built, ret>>

\* next(it)
ForestNext ==
    /\ built
    /\ gen.status \in {"created", "yield"}
    /\ LET r == forestNext(G, gen)
       IN  G' = r.G /\ gen' = r.st
    /\ UNCHANGED <<built, ret>>

\* the caller drops a generator that has stopped or raised
ForestDrop ==
    /\ gen.status \in {"stop", "RuntimeError"}
    /\ gen' = NoGen
    /\ UNCHANGED <<G, built, ret>>

Next ==
    \/ \E u, v \in Vertex : AddEdge(u, v)
    \/ Constructed
    \/ CallVertices
    \/ \E v \in Vertex : CallNeighbors(v)
    \/ \E v \in Vertex : CallOutdegree(v)
    \/ \E v \in Vertex : CallIndegree(v)
    \/ CallEdges
    \/ CallTranspose
    \/ CallUndirected
    \/ \E v \in Vertex : CallSpanningTree(v)
    \/ CallCcs
    \/ CallLinearize
    \/ \E u, v \in Vertex : CallReachable(u, v)
    \/ CallAcyclic
    \/ CallSccs
    \/ CallCondensation
    \/ \E s, t \in Vertex : CallShortestPath(s, t)
    \/ Discard

Spec == Init /\ [][Next]_vars

\* reachable on a graph whose dict earlier lookups may have grown
NextReach ==
    \/ \E u, v \in Vertex : AddEdge(u, v)
    \/ Constructed
    \/ \E v \in Vertex : CallNeighbors(v)
    \/ \E u, v \in Vertex : CallReachable(u, v)
    \/ Discard

SpecReach == Init /\ [][NextReach]_vars

NextPath ==
    \/ \E u, v \in Vertex : AddEdge(u, v)
    \/ Constructed
    \/ \E v \in Vertex : CallNeighbors(v)
    \/ \E s, t \in Vertex : CallShortestPath(s, t)
    \/ Discard

SpecPath == Init /\ [][NextPath]_vars

NextScc ==
    \/ \E u, v \in Vertex : AddEdge(u, v)
    \/ Constructed
    \/ \E v \in Vertex : CallNeighbors(v)
    \/ CallLinearize
    \/ CallAcyclic
    \/ CallSccs
    \/ CallCondensation
    \/ Discard

SpecScc == Init /\ [][NextScc]_vars

\* the generator spanning_forest() stepped by its caller, and ccs()
NextForest ==
    \/ \E u, v \in Vertex : AddEdge(u, v)
    \/ Constructed
    \/ CallCcs
    \/ Discard
    \/ ForestStart
    \/ ForestNext
    \/ ForestDrop

SpecForest == Init /\ [][NextForest]_vars

(***************************************************************************)
(* Graph theory on the edge set, independent of the algorithms above.      *)
(***************************************************************************)
EdgeSet(g) ==
    UNION {{<<g.keys[i], w>> : w \in Range(g.adj[g.keys[i]])} : i \in 1..Len(g.keys)}

Endpoints(E) == {e[1] : e \in E} \cup {e[2] : e \in E}

Succs(E, S) == {e[2] : e \in {d \in E : d[1] \in S}}

\* the vertices on a path of length >= 0 from a member of S
RECURSIVE Closure(_, _)
Closure(E, S) ==
    IF Succs(E, S) \subseteq S THEN S ELSE Closure(E, S \cup Succs(E, S))

HasPath(E, u, v) == v \in Closure(E, {u})

\* no path of length >= 1 leads from a vertex back to itself
NoCycle(E) == \A e \in E : ~HasPath(E, e[2], e[1])

\* the least number of edges of a path from a member of S to t, k so far
RECURSIVE Hops(_, _, _, _)
Hops(E, S, t, k) ==
    IF t \in S THEN k ELSE Hops(E, S \cup Succs(E, S), t, k + 1)

NoDuplicates(s) == \A i, j \in 1..Len(s) : s[i] = s[j] => i = j

Before(s, u, v) == \E i, j \in 1..Len(s) : i < j /\ s[i] = u /\ s[j] = v

Returned(op) == ret.op = op /\ ret.status = "ok"

Raised == ret.op # "none" /\ ret.status = "RuntimeError"

StronglyConnected(E, u, w) == HasPath(E, u, w) /\ HasPath(E, w, u)

\* C1: whenever sccs() returns, every endpoint of an edge lies in exactly one
\* returned component, and two vertices share a component iff each is
\* reachable from the other.
C1_SccsPartition ==
    Returned("sccs") =>
        LET E == EdgeSet(G)
            In(v) == {i \in 1..Len(ret.sccs) : v \in Range(ret.sccs[i])}
        IN  /\ \A i \in 1..Len(ret.sccs) : NoDuplicates(ret.sccs[i])
            /\ \A v \in Endpoints(E) : Cardinality(In(v)) = 1
            /\ \A u, w \in Endpoints(E) :
                  (In(u) \cap In(w) # {}) <=> StronglyConnected(E, u, w)

\* C2: whenever linearize() runs to its end on an acyclic graph, what it
\* yielded holds each vertex exactly once and puts u before v for every
\* edge (u, v).
C2_LinearizeTopological ==
    (Returned("linearize") /\ NoCycle(EdgeSet(G))) =>
        /\ NoDuplicates(ret.linearize)
        /\ Range(ret.linearize) = Range(vertices(G))
        /\ \A e \in EdgeSet(G) : Before(ret.linearize, e[1], e[2])

\* C3: whenever acyclic() returns, it returns True iff the graph has no
\* directed cycle, a self-loop being a cycle.
C3_AcyclicIffNoCycle ==
    Returned("acyclic") => (ret.acyclic <=> NoCycle(EdgeSet(G)))

SccOf(E, v) == {w \in Endpoints(E) : StronglyConnected(E, v, w)}

\* C4: whenever condensation() returns, vertices() of the returned graph is
\* exactly the set of strongly connected components of the graph, one
\* frozenset for each.
C4_CondensationVertices ==
    Returned("condensation") =>
        /\ NoDuplicates(vertices(ret.condensation))
        /\ Range(vertices(ret.condensation)) =
              {SccOf(EdgeSet(G), v) : v \in Endpoints(EdgeSet(G))}

\* C5: whenever condensation() returns, the returned graph has no directed
\* cycle and no self-loop.
C5_CondensationAcyclic ==
    Returned("condensation") => NoCycle(EdgeSet(ret.condensation))

\* C5 happens: condensation() returned a graph with an edge, for a graph
\* that has a cycle.
C5_Witness ==
    /\ Returned("condensation")
    /\ EdgeSet(ret.condensation) # {}
    /\ ~NoCycle(EdgeSet(G))

IsPath(E, p, s, t) ==
    /\ Len(p) >= 1
    /\ p[1] = s
    /\ p[Len(p)] = t
    /\ \A i \in 1..(Len(p) - 1) : <<p[i], p[i + 1]>> \in E

\* C6: shortest_path(s, t) with the default weight returns None iff t is not
\* reachable from s, and otherwise a path from s to t along edges of the
\* graph with the least possible number of edges.
C6_ShortestPathIsBfs ==
    ret.op = "shortest_path" =>
        LET E == EdgeSet(G)
            s == ret.args[1]
            t == ret.args[2]
        IN  /\ ret.status \in {"ok", "None"}
            /\ ret.status = "None" <=> ~HasPath(E, s, t)
            /\ ret.status = "ok" =>
                  /\ IsPath(E, ret.shortest_path, s, t)
                  /\ Len(ret.shortest_path) - 1 = Hops(E, {s}, t, 0)

\* C6 happens: the direct edge was returned where a path of two edges
\* exists as well.
C6_Witness ==
    /\ Returned("shortest_path")
    /\ Len(ret.shortest_path) = 2
    /\ \E x \in Vertex \ {ret.args[1], ret.args[2]} :
          {<<ret.args[1], x>>, <<x, ret.args[2]>>} \subseteq EdgeSet(G)

\* C7: reachable(u, v) is True iff a directed path of length >= 0 leads
\* from u to v, for vertices of the graph and for vertices outside it.
C7_ReachableIffPath ==
    ret.op = "reachable" =>
        /\ ret.status = "ok"
        /\ ret.reachable <=> HasPath(EdgeSet(G), ret.args[1], ret.args[2])

\* C7 happens: reachable returned True for two vertices joined by a path
\* but by no edge.
C7_Witness ==
    /\ Returned("reachable")
    /\ ret.reachable
    /\ ret.args[1] # ret.args[2]
    /\ <<ret.args[1], ret.args[2]>> \notin EdgeSet(G)

\* C8: once the graph is constructed, no call changes vertices() or the
\* edge set of the receiver.
C8_GraphImmutable ==
    [][built => (vertices(G') = vertices(G) /\ EdgeSet(G') = EdgeSet(G))]_vars

\* C9: no call raises: every operation returns a result on every graph.
C9_NoCallRaises == ~Raised /\ gen.status # "RuntimeError"

TreeVertices == Range(postorderSeq(gen.trees))

RECURSIVE TreeEdges(_), TreeEdgesSeq(_)
TreeEdgesSeq(bs) ==
    IF bs = <<>> THEN {} ELSE TreeEdges(Head(bs)) \cup TreeEdgesSeq(Tail(bs))

TreeEdges(t) ==
    {<<t.root, t.branches[i].root>> : i \in 1..Len(t.branches)}
    \cup TreeEdgesSeq(t.branches)

\* C10: the trees of one spanning_forest() call hold no vertex twice, every
\* tree edge is an edge of the graph, the visited set is at every step the
\* set of vertices placed in a tree, and when the call has ended the trees
\* hold exactly the vertices reachable from the enumerated vertices.
C10_ForestPartitions ==
    /\ NoDuplicates(postorderSeq(gen.trees))
    /\ TreeEdgesSeq(gen.trees) \subseteq EdgeSet(G)
    /\ gen.visited = TreeVertices
    /\ gen.status \in {"stop", "RuntimeError"} =>
          TreeVertices = Closure(EdgeSet(G), Range(SubSeq(G.keys, 1, gen.n0)))

====
